---- MODULE Spec2Model ----
(***************************************************************************)
(* Model of the HM Treasury spending normalisation-and-metadata engine     *)
(* (apps/pipeline/fetch_hmt_spending_data.py and its near-duplicate        *)
(* scripts/fetch_hmt_spending_data.py).                                    *)
(*                                                                         *)
(* Text is a sequence of one-character strings.  A cell of a table is a    *)
(* record tagged by kind: a float NaN, Python None, a str or a number.     *)
(***************************************************************************)
EXTENDS Integers, Sequences, FiniteSets, TLC

VARIABLES
    pc,          \* position in the engine run
    xls,         \* the workbook handed to pick_best_sheet
    sheet_name,  \* result of pick_best_sheet
    df,          \* the raw table: [columns, rows]
    column_map,  \* result of map_columns
    df_norm,     \* result of normalize_dataframe
    metadata,    \* result of compute_metadata
    series,      \* the column handed to a value coercer
    parsed,      \* the coercer's result
    dtm,         \* the target month of the run: [year, month]
    args,        \* the arguments of a function applied on its own
    returned     \* what that function returned

vars == <<pc, xls, sheet_name, df, column_map, df_norm, metadata, series, parsed,
          dtm, args, returned>>

(***************************************************************************)
(* Bounds of the model.                                                    *)
(***************************************************************************)
MaxCols == 3

(***************************************************************************)
(* Cells.                                                                  *)
(***************************************************************************)
NaN == [kind |-> "nan"]
None == [kind |-> "none"]
Str(s) == [kind |-> "str", s |-> s]
Unset == [kind |-> "unset"]

Min(S) == CHOOSE x \in S : \A y \in S : x <= y
Max(S) == CHOOSE x \in S : \A y \in S : x >= y

(***************************************************************************)
(* Python str operations used by the engine.                               *)
(***************************************************************************)
Whitespace == {" ", "\t", "\n", "\r"}

Punctuation ==
    {"!", "\"", "#", "$", "%", "&", "'", "(", ")", "*", "+", ",", "-", ".",
     "/", ":", ";", "<", "=", ">", "?", "@", "[", "\\", "]", "^", "_",
     "{", "|", "}", "~"}   \* the backquote, which no label of the model uses, is left out

UpperCase == <<"A","B","C","D","E","F","G","H","I","J","K","L","M","N","O","P","Q","R","S","T","U","V","W","X","Y","Z">>
LowerCase == <<"a","b","c","d","e","f","g","h","i","j","k","l","m","n","o","p","q","r","s","t","u","v","w","x","y","z">>

lower_char(c) ==
    IF \E i \in DOMAIN UpperCase : UpperCase[i] = c
    THEN LowerCase[CHOOSE i \in DOMAIN UpperCase : UpperCase[i] = c]
    ELSE c

lower(s) == [i \in DOMAIN s |-> lower_char(s[i])]

strip(s) ==
    LET keep == {i \in DOMAIN s : s[i] \notin Whitespace}
    IN  IF keep = {} THEN <<>> ELSE SubSeq(s, Min(keep), Max(keep))

IsDeleted(c) == c \in Punctuation \cup {" "}
IsKept(c) == ~IsDeleted(c)

\* a in cc
Contains(cc, a) ==
    \E i \in 0..(Len(cc) - Len(a)) : SubSeq(cc, i + 1, i + Len(a)) = a

canon(s) == SelectSeq(lower(strip(s)), IsKept)

(***************************************************************************)
(* The alias registry.                                                     *)
(***************************************************************************)
Fields ==
    << "department_family", "entity", "date", "expense_type", "expense_area",
       "supplier", "transaction_number", "amount_gbp", "description",
       "supplier_postcode", "supplier_type", "contract_number",
       "project_code", "item_text" >>

FieldSet == {Fields[i] : i \in DOMAIN Fields}

ALIASES ==
  [ department_family |->
      { <<"d","e","p","a","r","t","m","e","n","t"," ","f","a","m","i","l","y">>,
        <<"d","e","p","a","r","t","m","e","n","t">>,
        <<"d","e","p","a","r","t","m","e","n","t","f","a","m","i","l","y">> }
  , entity |->
      { <<"e","n","t","i","t","y">>,
        <<"b","o","d","y">>,
        <<"e","n","t","i","t","y"," ","n","a","m","e">> }
  , date |->
      { <<"p","a","y","m","e","n","t"," ","d","a","t","e">>,
        <<"d","a","t","e">>,
        <<"t","r","a","n","s","a","c","t","i","o","n"," ","d","a","t","e">>,
        <<"p","a","i","d"," ","d","a","t","e">> }
  , expense_type |->
      { <<"e","x","p","e","n","s","e"," ","t","y","p","e">>,
        <<"e","x","p","e","n","d","i","t","u","r","e"," ","t","y","p","e">>,
        <<"t","y","p","e">>,
        <<"c","a","t","e","g","o","r","y">> }
  , expense_area |->
      { <<"e","x","p","e","n","s","e"," ","a","r","e","a">>,
        <<"c","o","s","t"," ","c","e","n","t","r","e">>,
        <<"c","o","s","t"," ","c","e","n","t","e","r">>,
        <<"c","o","s","t","c","e","n","t","r","e">>,
        <<"d","i","r","e","c","t","o","r","a","t","e">>,
        <<"u","n","i","t">> }
  , supplier |->
      { <<"s","u","p","p","l","i","e","r">>,
        <<"v","e","n","d","o","r">>,
        <<"s","u","p","p","l","i","e","r"," ","n","a","m","e">>,
        <<"p","a","y","e","e">>,
        <<"r","e","c","i","p","i","e","n","t">> }
  , transaction_number |->
      { <<"v","o","u","c","h","e","r"," ","n","u","m","b","e","r">>,
        <<"t","r","a","n","s","a","c","t","i","o","n"," ","n","u","m","b","e","r">>,
        <<"t","r","a","n","s","a","c","t","i","o","n"," ","n","o">>,
        <<"t","r","a","n","s","a","c","t","i","o","n"," ","i","d">>,
        <<"r","e","f","e","r","e","n","c","e">>,
        <<"r","e","f">> }
  , amount_gbp |->
      { <<"a","m","o","u","n","t">>,
        <<"a","m","o","u","n","t"," ","g","b","p">>,
        <<"a","m","o","u","n","t"," ","£">>,
        <<"a","m","o","u","n","t","(","£",")">>,
        <<"£">>,
        <<"g","b","p">>,
        <<"n","e","t"," ","a","m","o","u","n","t">>,
        <<"v","a","l","u","e">>,
        <<"a","m","o","u","n","t"," ","(","g","b","p",")">>,
        <<"a","m","o","u","n","t"," ","(","e","x","c","l"," ","v","a","t",")">>,
        <<"a","m","o","u","n","t"," ","e","x","c","l","u","d","i","n","g"," ","v","a","t">> }
  , description |->
      { <<"p","u","b","l","i","c","a","t","i","o","n"," ","d","e","s","c","r","i","p","t","i","o","n">>,
        <<"d","e","s","c","r","i","p","t","i","o","n">>,
        <<"i","t","e","m"," ","t","e","x","t">>,
        <<"n","a","r","r","a","t","i","v","e">>,
        <<"s","p","e","n","d"," ","d","e","s","c","r","i","p","t","i","o","n">>,
        <<"n","o","t","e","s">> }
  , supplier_postcode |->
      { <<"s","u","p","p","l","i","e","r"," ","p","o","s","t","c","o","d","e">>,
        <<"p","o","s","t","a","l"," ","c","o","d","e">>,
        <<"p","o","s","t"," ","c","o","d","e">>,
        <<"p","o","s","t","c","o","d","e">> }
  , supplier_type |->
      { <<"s","u","p","p","l","i","e","r"," ","t","y","p","e">>,
        <<"s","u","p","p","l","i","e","r"," ","c","a","t","e","g","o","r","y">>,
        <<"o","r","g","a","n","i","s","a","t","i","o","n"," ","t","y","p","e">>,
        <<"o","r","g","a","n","i","z","a","t","i","o","n"," ","t","y","p","e">> }
  , contract_number |->
      { <<"c","o","n","t","r","a","c","t"," ","n","u","m","b","e","r">>,
        <<"c","o","n","t","r","a","c","t"," ","n","o">>,
        <<"p","o"," ","n","u","m","b","e","r">>,
        <<"p","u","r","c","h","a","s","e"," ","o","r","d","e","r">>,
        <<"p","u","r","c","h","a","s","e"," ","o","r","d","e","r"," ","n","o">>,
        <<"p","u","r","c","h","a","s","e"," ","o","r","d","e","r"," ","n","u","m","b","e","r">> }
  , project_code |->
      { <<"p","r","o","j","e","c","t"," ","c","o","d","e">>,
        <<"p","r","o","j","e","c","t">>,
        <<"c","o","s","t"," ","c","o","d","e">>,
        <<"p","r","o","g","r","a","m","m","e"," ","c","o","d","e">>,
        <<"p","r","o","g","r","a","m"," ","c","o","d","e">> }
  , item_text |->
      { <<"i","t","e","m"," ","t","e","x","t">>,
        <<"l","i","n","e"," ","d","e","s","c","r","i","p","t","i","o","n">> }
  ]

ALIASES_CANON == [k \in FieldSet |-> {canon(n) : n \in ALIASES[k]}]

(***************************************************************************)
(* Column Resolver: map_columns.  cols is the header row, in column order. *)
(***************************************************************************)
ExactIdx(lc, alias_set) == {i \in DOMAIN lc : lc[i] \in alias_set}

LenientIdx(lc, alias_set) ==
    {i \in DOMAIN lc : \E a \in alias_set : Contains(lc[i], a)}

\* a resolver step that runs the lenient pass before the exact one
ColumnIdxLenientFirst(lc, alias_set) ==
    IF LenientIdx(lc, alias_set) # {} THEN Min(LenientIdx(lc, alias_set))
    ELSE IF ExactIdx(lc, alias_set) # {} THEN Min(ExactIdx(lc, alias_set))
    ELSE 0

\* idx for one key: 0 stands for Python's None
ColumnIdx(lc, alias_set) ==
    IF ExactIdx(lc, alias_set) # {} THEN Min(ExactIdx(lc, alias_set))
    ELSE IF LenientIdx(lc, alias_set) # {} THEN Min(LenientIdx(lc, alias_set))
    ELSE 0

\* a resolver in which a header already given to an earlier field is not
\* offered to a later one
RECURSIVE MapExclusive(_, _, _, _)
MapExclusive(cols, lc, k, acc) ==
    IF k > Len(Fields) THEN acc
    ELSE LET taken == {i \in DOMAIN cols : \E f \in DOMAIN acc : acc[f] = cols[i]}
             free  == [i \in DOMAIN lc |-> IF i \in taken THEN <<"\n">> ELSE lc[i]]
             idx   == ColumnIdx(free, ALIASES_CANON[Fields[k]])
         IN  MapExclusive(cols, lc, k + 1,
                 IF idx = 0 THEN acc ELSE acc @@ (Fields[k] :> cols[idx]))

map_columns_exclusive(cols) ==
    MapExclusive(cols, [i \in DOMAIN cols |-> canon(cols[i])], 1, <<>>)

map_columns(cols) ==
    LET lc == [i \in DOMAIN cols |-> canon(cols[i])]
        idx == [key \in FieldSet |-> ColumnIdx(lc, ALIASES_CANON[key])]
    IN  [key \in {k \in FieldSet : idx[k] # 0} |-> cols[idx[key]]]

(***************************************************************************)
(* Header labels the raw tables of the model are built from.               *)
(***************************************************************************)
Labels ==
    { <<"S","u","p","p","l","i","e","r">>,
      <<"S","u","p","p","l","i","e","r"," ","P","o","s","t","c","o","d","e">>,
      <<"A","m","o","u","n","t"," ","(","£",")">>,
      <<"T","o","t","a","l"," ","N","e","t"," ","A","m","o","u","n","t",".">>,
      <<"I","t","e","m"," ","T","e","x","t">>,
      <<"L","i","n","e"," ","D","e","s","c","r","i","p","t","i","o","n">>,
      <<" ","V","e","n","d","o","r","\t">>,
      <<"C","o","m","m","e","n","t">> }

\* header rows: distinct labels (the readers de-duplicate column names)
RECURSIVE HeaderRows(_, _)
HeaderRows(pool, n) ==
    IF n = 0 THEN {<<>>}
    ELSE LET shorter == HeaderRows(pool, n - 1)
         IN  shorter \cup
             {Append(h, l) : h \in {x \in shorter : Len(x) = n - 1},
                             l \in pool} 

DistinctRows(pool, n) ==
    {h \in HeaderRows(pool, n) : \A i, j \in DOMAIN h : i # j => h[i] # h[j]}

(***************************************************************************)
(* SpecResolve: the Column Resolver alone, over every header row.          *)
(***************************************************************************)
InitResolve ==
    /\ pc = "resolve"
    /\ df \in {[columns |-> h, rows |-> <<>>] : h \in DistinctRows(Labels, MaxCols)}
    /\ column_map = Unset
    /\ xls = Unset /\ sheet_name = Unset /\ df_norm = Unset
    /\ metadata = Unset /\ series = Unset /\ parsed = Unset
    /\ dtm = Unset /\ args = Unset /\ returned = Unset

Resolve ==
    /\ pc = "resolve"
    /\ column_map' = map_columns(df.columns)
    /\ pc' = "resolved"
    /\ UNCHANGED <<xls, sheet_name, df, df_norm, metadata, series, parsed,
                   dtm, args, returned>>

NextResolve == Resolve

SpecResolve == InitResolve /\ [][NextResolve]_vars

(***************************************************************************)
(* What the claims about the resolver speak of, stated over the header row *)
(* and the registry rather than over map_columns.                          *)
(***************************************************************************)
IsExactMatch(key, h) == \E n \in ALIASES[key] : canon(h) = canon(n)

IsLenientMatch(key, h) == \E n \in ALIASES[key] : Contains(canon(h), canon(n))

\* column i is the one the claim says key resolves to
IsFirstMatch(key, cols, i) ==
    IF \E j \in DOMAIN cols : IsExactMatch(key, cols[j])
    THEN /\ IsExactMatch(key, cols[i])
         /\ \A j \in 1..(i - 1) : ~IsExactMatch(key, cols[j])
    ELSE /\ IsLenientMatch(key, cols[i])
         /\ \A j \in 1..(i - 1) : ~IsLenientMatch(key, cols[j])

\* C3: a field maps to the first header whose canonical form equals one of
\* its aliases, even when an earlier header only contains an alias; only
\* when no header matches exactly does it map to the first header whose
\* canonical form contains an alias; a field with no match of either kind
\* is omitted from the mapping.
C3_ExactBeforeLenient ==
    pc = "resolved" =>
        \A key \in FieldSet :
            /\ \A i \in DOMAIN df.columns :
                   IsFirstMatch(key, df.columns, i) =>
                       /\ key \in DOMAIN column_map
                       /\ column_map[key] = df.columns[i]
            /\ (\A i \in DOMAIN df.columns : ~IsLenientMatch(key, df.columns[i]))
                   => key \notin DOMAIN column_map

\* C3 witness: an earlier header only contains an alias of the field, a
\* later one equals an alias, and the field has been mapped to the later one.
C3_Witness ==
    /\ pc = "resolved"
    /\ \E key \in DOMAIN column_map : \E i, j \in DOMAIN df.columns :
           /\ i < j
           /\ IsLenientMatch(key, df.columns[i])
           /\ ~IsExactMatch(key, df.columns[i])
           /\ IsExactMatch(key, df.columns[j])
           /\ column_map[key] = df.columns[j]

MaxSheets == 3

\* the characters of sheet names, in code point order (Python compares str
\* by code point)
CodePoints == <<" ", "1", "2", "A", "C", "D", "H", "M", "N", "T",
               "a", "c", "e", "m", "o", "r", "s", "t", "v">>

Ord(c) == CHOOSE i \in DOMAIN CodePoints : CodePoints[i] = c

\* a < b on Python str
StrLess(a, b) ==
    \E k \in 0..Len(a) :
        /\ k <= Len(b)
        /\ \A j \in 1..k : a[j] = b[j]
        /\ IF k = Len(a) THEN k < Len(b)
           ELSE k < Len(b) /\ Ord(a[k + 1]) < Ord(b[k + 1])

\* (score, name) < (score, name) on Python tuples
TupleLess(x, y) ==
    \/ x[1] < y[1]
    \/ x[1] = y[1] /\ StrLess(x[2], y[2])

signals ==
    { <<"s","u","p","p","l","i","e","r">>,
      <<"a","m","o","u","n","t">>,
      <<"d","a","t","e">> }

sheet_score(columns) ==
    LET cols == [i \in DOMAIN columns |-> canon(columns[i])]
    IN  Cardinality({sig \in signals : \E i \in DOMAIN cols : Contains(cols[i], sig)})

\* the (score, name) pairs of the sheets read_excel could read
sheet_scores(book) ==
    {<<sheet_score(book[i].columns), book[i].name>> :
        i \in {j \in DOMAIN book : book[j].readable}}

\* scores.sort(reverse=True); scores[0]
first_after_sort(scores) ==
    CHOOSE x \in scores : \A y \in scores : y = x \/ TupleLess(y, x)

pick_best_sheet(book) ==
    IF sheet_scores(book) = {} THEN book[1].name
    ELSE first_after_sort(sheet_scores(book))[2]

SheetNames ==
    { <<"C","o","v","e","r">>, <<"D","a","t","a">>,
      <<"N","o","t","e","s">>, <<"D","a","t","a"," ","2">> }

SheetHeaders ==
    { <<>>,
      << <<"C","o","m","m","e","n","t">> >>,
      << <<"S","u","p","p","l","i","e","r">> >>,
      << <<"S","u","p","p","l","i","e","r">>, <<"A","m","o","u","n","t"," ","(","£",")">> >>,
      << <<"P","a","i","d"," ","D","a","t","e">>, <<" ","V","e","n","d","o","r","\t">>,
         <<"T","o","t","a","l"," ","N","e","t"," ","A","m","o","u","n","t",".">> >> }

Sheets ==
    {[name |-> n, readable |-> TRUE, columns |-> h] : n \in SheetNames, h \in SheetHeaders}
    \cup {[name |-> n, readable |-> FALSE, columns |-> <<>>] : n \in SheetNames}

RECURSIVE Workbooks(_)
Workbooks(n) ==
    IF n = 0 THEN {<<>>}
    ELSE LET shorter == Workbooks(n - 1)
         IN  shorter \cup
             {Append(b, sh) : b \in {x \in shorter : Len(x) = n - 1},
                              sh \in Sheets}

\* a workbook has at least one sheet and no two sheets of one name
IsWorkbook(b) ==
    /\ Len(b) >= 1
    /\ \A i, j \in DOMAIN b : i # j => b[i].name # b[j].name

InitSheets ==
    /\ pc = "select"
    /\ xls \in {b \in Workbooks(MaxSheets) : IsWorkbook(b)}
    /\ sheet_name = Unset
    /\ df = Unset /\ column_map = Unset /\ df_norm = Unset
    /\ metadata = Unset /\ series = Unset /\ parsed = Unset
    /\ dtm = Unset /\ args = Unset /\ returned = Unset

SelectSheet ==
    /\ pc = "select"
    /\ sheet_name' = pick_best_sheet(xls)
    /\ pc' = "selected"
    /\ UNCHANGED <<xls, df, column_map, df_norm, metadata, series, parsed,
                   dtm, args, returned>>

NextSheets == SelectSheet

SpecSheets == InitSheets /\ [][NextSheets]_vars

Readable(book) == {i \in DOMAIN book : book[i].readable}

\* the number of signal terms a header row carries, counted term by term
SignalCount(columns) ==
    Cardinality({sig \in signals :
        \E i \in DOMAIN columns : Contains(canon(columns[i]), sig)})

\* C5: the selected sheet has the maximum score over the readable sheets,
\* and among the sheets sharing that maximum it is the first in workbook
\* order, whatever the sheets are named.
C5_BestSheetFirstOnTies ==
    (pc = "selected" /\ Readable(xls) # {}) =>
        \E i \in Readable(xls) :
            /\ sheet_name = xls[i].name
            /\ \A j \in Readable(xls) :
                   SignalCount(xls[j].columns) <= SignalCount(xls[i].columns)
            /\ \A j \in Readable(xls) :
                   j < i => SignalCount(xls[j].columns) < SignalCount(xls[i].columns)

\* C6: when every sheet is unreadable, or every readable sheet scores 0,
\* the selector returns the first sheet of the workbook.
C6_FallbackToFirstSheet ==
    (/\ pc = "selected"
     /\ \A i \in Readable(xls) : SignalCount(xls[i].columns) = 0)
        => sheet_name = xls[1].name

(***************************************************************************)
(* Numbers.  PyInt(n) is an integer cell; PyFloat(m, e) is the float       *)
(* m / 10^e, kept in lowest terms (m is no multiple of 10 unless e = 0).   *)
(***************************************************************************)
PyInt(n) == [kind |-> "int", n |-> n]

RECURSIVE PyFloat(_, _)
PyFloat(m, e) ==
    IF e > 0 /\ m % 10 = 0 THEN PyFloat(m \div 10, e - 1)
    ELSE [kind |-> "float", m |-> m, e |-> e]

Digits == <<"0", "1", "2", "3", "4", "5", "6", "7", "8", "9">>

IsDigit(c) == \E i \in DOMAIN Digits : Digits[i] = c

DigitVal(c) == (CHOOSE i \in DOMAIN Digits : Digits[i] = c) - 1

RECURSIVE ToNat(_)
ToNat(ds) ==
    IF ds = <<>> THEN 0
    ELSE 10 * ToNat(SubSeq(ds, 1, Len(ds) - 1)) + DigitVal(ds[Len(ds)])

RECURSIVE NatStr(_)
NatStr(n) ==
    IF n < 10 THEN <<Digits[n + 1]>> ELSE NatStr(n \div 10) \o <<Digits[(n % 10) + 1]>>

RECURSIVE Pow10(_)
Pow10(e) == IF e = 0 THEN 1 ELSE 10 * Pow10(e - 1)

RECURSIVE ZeroPad(_, _)
ZeroPad(ds, width) == IF Len(ds) >= width THEN ds ELSE ZeroPad(<<"0">> \o ds, width)

\* str() of a cell, as Series.astype(str) applies it
str(c) ==
    CASE c.kind = "str"   -> c.s
      [] c.kind = "nan"   -> <<"n", "a", "n">>
      [] c.kind = "none"  -> <<"N", "o", "n", "e">>
      [] c.kind = "int"   -> IF c.n < 0 THEN <<"-">> \o NatStr(-c.n) ELSE NatStr(c.n)
      [] c.kind = "float" ->
            LET a == IF c.m < 0 THEN -c.m ELSE c.m
                whole == NatStr(a \div Pow10(c.e))
                frac == IF c.e = 0 THEN <<"0">>
                        ELSE ZeroPad(NatStr(a % Pow10(c.e)), c.e)
            IN  (IF c.m < 0 THEN <<"-">> ELSE <<>>) \o whole \o <<".">> \o frac

isna(c) == c.kind \in {"nan", "none"}

is_numeric_dtype(col) ==
    /\ col # <<>>
    /\ \A i \in DOMAIN col : col[i].kind \in {"int", "float", "nan"}

\* astype(float) on a cell of a numeric column
as_float(c) == IF c.kind = "int" THEN PyFloat(c.n, 0) ELSE c

(***************************************************************************)
(* Amount coercion: parse_amount.                                          *)
(***************************************************************************)
\* .str.replace(ch, "", regex=False)
remove_char(s, ch) == SelectSeq(s, LAMBDA c : c # ch)

\* a rewrite that drops the parentheses and writes no sign
unparenthesise_unsigned(s) ==
    IF Len(s) >= 2 /\ s[1] = "(" /\ s[Len(s)] = ")"
    THEN SubSeq(s, 2, Len(s) - 1)
    ELSE s

\* .str.replace(r"^\((.*)\)$", r"-\1", regex=True); "." does not match a newline
\* and "$" also matches just before a newline that ends the text
unparenthesise(s) ==
    LET body == IF s # <<>> /\ s[Len(s)] = "\n" THEN SubSeq(s, 1, Len(s) - 1) ELSE s
        rest == SubSeq(s, Len(body) + 1, Len(s))
        full(t) == /\ Len(t) >= 2 /\ t[1] = "(" /\ t[Len(t)] = ")"
                   /\ \A i \in 2..(Len(t) - 1) : t[i] # "\n"
    IN  IF full(s) THEN <<"-">> \o SubSeq(s, 2, Len(s) - 1)
        ELSE IF full(body) THEN <<"-">> \o SubSeq(body, 2, Len(body) - 1) \o rest
        ELSE s

\* the end of the longest run of digits of s that starts at i (i - 1 when
\* s[i] is no digit)
RECURSIVE digits_end(_, _)
digits_end(s, i) ==
    IF i <= Len(s) /\ IsDigit(s[i]) THEN digits_end(s, i + 1) ELSE i - 1

\* the match of -?\d+(?:\.\d+)? that starts at i, as <<from, to>>, or <<>>
match_at(s, i) ==
    LET d == IF s[i] = "-" THEN i + 1 ELSE i
        e == digits_end(s, d)
        f == IF e + 1 <= Len(s) /\ s[e + 1] = "." THEN digits_end(s, e + 2) ELSE e
    IN  IF e < d THEN <<>>
        ELSE IF f >= e + 2 THEN <<i, f>> ELSE <<i, e>>

\* .str.extract(r"(-?\d+(?:\.\d+)?)"): the leftmost match, or NaN
extract_number(s) ==
    LET starts == {i \in DOMAIN s : match_at(s, i) # <<>>}
    IN  IF starts = {} THEN NaN
        ELSE Str(SubSeq(s, Min(starts), match_at(s, Min(starts))[2]))

\* the float a numeral matched by the pattern denotes
numeral_value(t) ==
    LET neg  == t[1] = "-"
        body == IF neg THEN SubSeq(t, 2, Len(t)) ELSE t
        dots == {i \in DOMAIN body : body[i] = "."}
        whole == IF dots = {} THEN body ELSE SubSeq(body, 1, Min(dots) - 1)
        frac == IF dots = {} THEN <<>> ELSE SubSeq(body, Min(dots) + 1, Len(body))
        mag  == ToNat(whole \o frac)
    IN  PyFloat(IF neg THEN -mag ELSE mag, Len(frac))

\* pd.to_numeric(s, errors="coerce") on the extracted numerals: int64 when
\* every cell is an integer numeral, float64 otherwise
to_numeric(col) ==
    LET integral(c) == c.kind = "str" /\ \A i \in DOMAIN c.s : c.s[i] # "."
        all_int == col # <<>> /\ \A i \in DOMAIN col : integral(col[i])
    IN  [i \in DOMAIN col |->
            IF col[i].kind # "str" THEN NaN
            ELSE IF all_int THEN PyInt(numeral_value(col[i].s).m)
            ELSE numeral_value(col[i].s)]

amount_text(c) ==
    unparenthesise(remove_char(remove_char(strip(str(c)), ","), "£"))

parse_amount(col) ==
    IF is_numeric_dtype(col) THEN [i \in DOMAIN col |-> as_float(col[i])]
    ELSE to_numeric([i \in DOMAIN col |-> extract_number(amount_text(col[i]))])

(***************************************************************************)
(* SpecAmount: parse_amount alone, over columns of one or two cells.       *)
(***************************************************************************)
MaxAmountLen == 3

AmountChars == {"(", ")", "1", "0", ".", ",", "£", "-", " ", "x"}

RECURSIVE Texts(_, _)
Texts(chars, n) ==
    IF n = 0 THEN {<<>>}
    ELSE LET shorter == Texts(chars, n - 1)
         IN  shorter \cup
             {Append(t, c) : t \in {x \in shorter : Len(x) = n - 1}, c \in chars}

AmountExamples ==
    { <<"(","1",",","2","3","4",".","5","0",")">>,
      <<"£","2",",","0","0","0">>,
      <<"n","/","a">>,
      <<" ","£","1","2",".","5"," ","[","b","]">>,
      <<"-","(","7",")">> }

AmountTexts == Texts(AmountChars, MaxAmountLen) \cup AmountExamples

\* what shares the column with the cell under test
Companions == {NaN, PyInt(42), Str(<<"n","/","a">>), Str(<<"1",".","5">>)}

NumericColumns ==
    { <<PyInt(42)>>, <<PyInt(42), PyInt(-7)>>, <<PyInt(0)>>,
      <<PyFloat(125, 1), NaN>>, <<PyFloat(-5, 2)>>, <<NaN, NaN>> }

InitAmount ==
    /\ pc = "amount"
    /\ series \in {<<Str(t)>> : t \in AmountTexts}
                  \cup {<<Str(t), c>> : t \in AmountTexts, c \in Companions}
                  \cup NumericColumns
    /\ parsed = Unset
    /\ xls = Unset /\ sheet_name = Unset /\ df = Unset /\ column_map = Unset
    /\ df_norm = Unset /\ metadata = Unset
    /\ dtm = Unset /\ args = Unset /\ returned = Unset

ParseAmount ==
    /\ pc = "amount"
    /\ parsed' = parse_amount(series)
    /\ pc' = "amount_done"
    /\ UNCHANGED <<xls, sheet_name, df, column_map, df_norm, metadata, series,
                   dtm, args, returned>>

NextAmount == ParseAmount

SpecAmount == InitAmount /\ [][NextAmount]_vars

(***************************************************************************)
(* What the amount claim speaks of: the text after the clean-up, and the   *)
(* first signed-decimal numeral in it, stated by position.                 *)
(***************************************************************************)
CleanedAmount(s) ==
    LET t == SelectSeq(strip(s), LAMBDA c : c \notin {",", "£"})
    IN  IF Len(t) >= 2 /\ t[1] = "(" /\ t[Len(t)] = ")"
        THEN <<"-">> \o SubSeq(t, 2, Len(t) - 1)
        ELSE t

\* u is: an optional "-", digits, and optionally "." and digits
IsNumeral(u) ==
    LET body == IF u # <<>> /\ u[1] = "-" THEN Tail(u) ELSE u
        dots == {i \in DOMAIN body : body[i] = "."}
    IN  /\ body # <<>>
        /\ \A i \in DOMAIN body : IsDigit(body[i]) \/ body[i] = "."
        /\ Cardinality(dots) <= 1
        /\ 1 \notin dots /\ Len(body) \notin dots

NumeralSpans(t) ==
    {ab \in (DOMAIN t) \X (DOMAIN t) :
        ab[1] <= ab[2] /\ IsNumeral(SubSeq(t, ab[1], ab[2]))}

\* the first contiguous numeral of t: leftmost start, then longest
FirstNumeral(t) ==
    LET from == Min({ab[1] : ab \in NumeralSpans(t)})
        to   == Max({ab[2] : ab \in {x \in NumeralSpans(t) : x[1] = from}})
    IN  SubSeq(t, from, to)

\* the cell c is the number m / 10^e
IsNumber(c, m, e) ==
    \/ c.kind = "float" /\ c = PyFloat(m, e)
    \/ c.kind = "int" /\ PyFloat(c.n, 0) = PyFloat(m, e)

HasDigit(s) == \E i \in DOMAIN s : IsDigit(s[i])

\* C7: a textual value is stripped, loses every "," and "£", has a full
\* pair of parentheses rewritten to a minus sign, and coerces to the first
\* signed-decimal numeral of the result ("(1,234.50)" to -1234.50, "£2,000"
\* to 2000.0); a value with no digit coerces to null; a numeric column comes
\* back with the same values as floats (42 as 42.0).
C7_AmountCoercion ==
    pc = "amount_done" =>
        /\ DOMAIN parsed = DOMAIN series
        /\ \A i \in DOMAIN series :
              IF is_numeric_dtype(series)
              THEN /\ series[i].kind = "nan" => parsed[i] = NaN
                   /\ series[i].kind = "int" =>
                          parsed[i] = [kind |-> "float", m |-> series[i].n, e |-> 0]
                   /\ series[i].kind = "float" => parsed[i] = series[i]
              ELSE series[i].kind = "str" =>
                   /\ ~HasDigit(series[i].s) => parsed[i] = NaN
                   /\ HasDigit(series[i].s) =>
                          LET v == numeral_value(FirstNumeral(CleanedAmount(series[i].s)))
                          IN  IsNumber(parsed[i], v.m, v.e)
                   /\ series[i].s = <<"(","1",",","2","3","4",".","5","0",")">>
                          => IsNumber(parsed[i], -12345, 1)
                   /\ series[i].s = <<"£","2",",","0","0","0">>
                          => IsNumber(parsed[i], 2000, 0)
                   /\ series[i].s = <<"n","/","a">> => parsed[i] = NaN

\* C7 witness: the column ("(1,234.50)", "n/a") has been coerced to
\* (-1234.5, null).
C7_Witness ==
    /\ pc = "amount_done"
    /\ series = <<Str(<<"(","1",",","2","3","4",".","5","0",")">>), Str(<<"n","/","a">>)>>
    /\ parsed = <<PyFloat(-12345, 1), NaN>>

(***************************************************************************)
(* Date coercion: parse_date.  pd.to_datetime(errors="coerce",             *)
(* dayfirst=True) treats dayfirst as a preference: a text A/B/YYYY whose   *)
(* B cannot be a month is read month first.  Depending on the pandas       *)
(* release it either reads every cell on its own, or fixes one format from *)
(* the first non-null cell and reads the whole column by it.  Both are     *)
(* behaviours of the call, and the model allows either.                    *)
(***************************************************************************)
NaT == [kind |-> "nat"]

Timestamp(y, m, d) == [kind |-> "ts", y |-> y, m |-> m, d |-> d]

IsLeap(y) == (y % 4 = 0 /\ y % 100 # 0) \/ y % 400 = 0

DaysIn(m, y) ==
    IF m = 2 THEN (IF IsLeap(y) THEN 29 ELSE 28)
    ELSE IF m \in {4, 6, 9, 11} THEN 30 ELSE 31

IsDate(y, m, d) == m \in 1..12 /\ d \in 1..DaysIn(m, y)

\* the three numbers of a text NN/NN/NNNN, or <<>> for any other text
date_tokens(s) ==
    IF /\ Len(s) = 10 /\ s[3] = "/" /\ s[6] = "/"
       /\ \A i \in {1, 2, 4, 5, 7, 8, 9, 10} : IsDigit(s[i])
    THEN <<ToNat(SubSeq(s, 1, 2)), ToNat(SubSeq(s, 4, 5)), ToNat(SubSeq(s, 7, 10))>>
    ELSE <<>>

\* one text read by a fixed format: "dmy" is %d/%m/%Y, "mdy" is %m/%d/%Y
read_by_format(s, fmt) ==
    LET t == date_tokens(s)
    IN  IF t = <<>> THEN NaT
        ELSE IF fmt = "dmy" /\ IsDate(t[3], t[2], t[1]) THEN Timestamp(t[3], t[2], t[1])
        ELSE IF fmt = "mdy" /\ IsDate(t[3], t[1], t[2]) THEN Timestamp(t[3], t[1], t[2])
        ELSE NaT

\* one text read on its own with dayfirst=True: day first when the second
\* number can be a month, month first otherwise
read_dayfirst(s) ==
    LET t == date_tokens(s)
    IN  IF t = <<>> THEN NaT
        ELSE IF t[2] <= 12 THEN read_by_format(s, "dmy")
        ELSE read_by_format(s, "mdy")

\* the format guessed from the first non-null cell: "none" when that cell
\* cannot be read
guessed_format(col) ==
    LET texts == {i \in DOMAIN col : col[i].kind = "str"}
    IN  IF texts = {} THEN "none"
        ELSE LET first == col[Min(texts)].s
                 t == date_tokens(first)
             IN  IF read_dayfirst(first) = NaT THEN "none"
                 ELSE IF t[2] <= 12 THEN "dmy" ELSE "mdy"

\* pd.to_datetime(series, errors="coerce", dayfirst=True)
to_datetime(col, infer) ==
    LET fmt == IF infer THEN guessed_format(col) ELSE "none"
    IN  [i \in DOMAIN col |->
            IF col[i].kind = "ts" THEN col[i]
            ELSE IF col[i].kind # "str" THEN NaT
            ELSE IF fmt = "none" THEN read_dayfirst(col[i].s)
            ELSE read_by_format(col[i].s, fmt)]

\* dt.strftime("%Y-%m-%d"); NaT comes out as NaN
strftime(t) ==
    IF t.kind # "ts" THEN NaN
    ELSE Str(ZeroPad(NatStr(t.y), 4) \o <<"-">> \o ZeroPad(NatStr(t.m), 2)
             \o <<"-">> \o ZeroPad(NatStr(t.d), 2))

parse_date(col, infer) ==
    LET dt == to_datetime(col, infer)
    IN  [i \in DOMAIN col |-> strftime(dt[i])]

(***************************************************************************)
(* SpecDate: parse_date alone, over short columns of date texts.           *)
(***************************************************************************)
MaxDateCells == 2

DateText(a, b, y) ==
    ZeroPad(NatStr(a), 2) \o <<"/">> \o ZeroPad(NatStr(b), 2) \o <<"/">> \o NatStr(y)

DateCells ==
    {Str(DateText(a, b, 2025)) : a \in {1, 5, 13, 30, 31}, b \in {1, 2, 12, 13}}
    \cup {Str(DateText(29, 2, 2024)), Str(<<"n","/","a">>), Str(<<>>), NaN}

RECURSIVE Columns(_, _)
Columns(cells, n) ==
    IF n = 0 THEN {<<>>}
    ELSE LET shorter == Columns(cells, n - 1)
         IN  shorter \cup
             {Append(col, c) : col \in {x \in shorter : Len(x) = n - 1}, c \in cells}

InitDate ==
    /\ pc = "date"
    /\ series \in Columns(DateCells, MaxDateCells)
    /\ parsed = Unset
    /\ xls = Unset /\ sheet_name = Unset /\ df = Unset /\ column_map = Unset
    /\ df_norm = Unset /\ metadata = Unset
    /\ dtm = Unset /\ args = Unset /\ returned = Unset

ParseDate ==
    /\ pc = "date"
    /\ \E infer \in BOOLEAN : parsed' = parse_date(series, infer)
    /\ pc' = "date_done"
    /\ UNCHANGED <<xls, sheet_name, df, column_map, df_norm, metadata, series,
                   dtm, args, returned>>

NextDate == ParseDate

SpecDate == InitDate /\ [][NextDate]_vars

\* C8: a value A/B/YYYY is read day first: when A is a valid day of month B
\* the result is the text YYYY-BB-AA; when B is no valid month or A no valid
\* day of B, and for absent or unparseable values, the result is null.
C8_DayFirstOrNull ==
    pc = "date_done" =>
        \A i \in DOMAIN series :
            LET t == IF series[i].kind = "str" THEN date_tokens(series[i].s) ELSE <<>>
            IN  IF t # <<>> /\ t[2] \in 1..12 /\ t[1] \in 1..DaysIn(t[2], t[3])
                THEN parsed[i] = Str(ZeroPad(NatStr(t[3]), 4) \o <<"-">>
                                     \o ZeroPad(NatStr(t[2]), 2) \o <<"-">>
                                     \o ZeroPad(NatStr(t[1]), 2))
                ELSE parsed[i] = NaN

(***************************************************************************)
(* Row Normalizer: normalize_dataframe.  A raw table is [columns, rows]:   *)
(* the header row and the rows of cells under it.  A normalized table is   *)
(* [kind |-> "frame", mapping, index, data]: data[k] is the column of      *)
(* canonical field k, index the raw row each of its rows came from (pandas *)
(* keeps the index through the row filter) and mapping the column mapping  *)
(* returned with the frame.  pandas2 tells the two behaviours of the       *)
(* library apart: from pandas 2.0 on, to_datetime fixes one format per     *)
(* column and is_string_dtype is true of an object column only when every  *)
(* element is a str; before, any object column counts as a string column.  *)
(***************************************************************************)
Raised(e) == [kind |-> "raised", error |-> e]

ColumnOf(d, label) ==
    LET c == CHOOSE i \in DOMAIN d.columns : d.columns[i] = label
    IN  [r \in DOMAIN d.rows |-> d.rows[r][c]]

\* {k: df[mapping[k]] if k in mapping else None for k in ALIASES_CANON.keys()}
source_columns(d, mapping) ==
    [k \in FieldSet |->
        IF k \in DOMAIN mapping THEN ColumnOf(d, mapping[k])
        ELSE [r \in DOMAIN d.rows |-> None]]

\* .astype(str).str.strip().replace({"nan": None})
identifier(col) ==
    [i \in DOMAIN col |->
        LET t == strip(str(col[i]))
        IN  IF t = <<"n", "a", "n">> THEN None ELSE Str(t)]

\* the cells of col at the positions of keep, in order
RECURSIVE take_rows(_, _)
take_rows(col, keep) ==
    IF keep = <<>> THEN <<>>
    ELSE <<col[Head(keep)]>> \o take_rows(col, Tail(keep))

RECURSIVE kept_rows(_, _, _)
kept_rows(supplier, amount, r) ==
    IF r > Len(supplier) THEN <<>>
    ELSE (IF isna(supplier[r]) /\ isna(amount[r]) THEN <<>> ELSE <<r>>)
         \o kept_rows(supplier, amount, r + 1)

\* pd.api.types.is_string_dtype on a column of the output frame
is_string_dtype(col, pandas2) ==
    IF pandas2 THEN \A i \in DOMAIN col : col[i].kind = "str"
    ELSE \E i \in DOMAIN col : col[i].kind \in {"str", "none"}

\* .str.strip().replace({"": None}); a cell that is no str comes out NaN
trim_column(col) ==
    [i \in DOMAIN col |->
        IF col[i].kind # "str" THEN NaN
        ELSE IF strip(col[i].s) = <<>> THEN None
        ELSE Str(strip(col[i].s))]

normalize_dataframe(d, pandas2) ==
    LET mapping == map_columns(d.columns)
        source == source_columns(d, mapping)
        coerced == [source EXCEPT
                       !["date"] = parse_date(@, pandas2),
                       !["amount_gbp"] = parse_amount(@),
                       !["transaction_number"] = identifier(@)]
        keep == kept_rows(coerced["supplier"], coerced["amount_gbp"], 1)
        out == [k \in FieldSet |-> take_rows(coerced[k], keep)]
    IN  IF DOMAIN mapping = {}
        THEN \* pd.DataFrame of scalars only: "If using all scalar values,
             \* you must pass an index"
             Raised("ValueError")
        ELSE [kind |-> "frame",
              mapping |-> mapping,
              index |-> keep,
              data |-> [k \in FieldSet |->
                           IF is_string_dtype(out[k], pandas2)
                           THEN trim_column(out[k]) ELSE out[k]]]

(***************************************************************************)
(* Metadata Builder.  A float a statistic returns is Float(n, d), the      *)
(* number n/d in lowest terms with d > 0, so that sums, means and          *)
(* interpolated percentiles are exact.                                     *)
(***************************************************************************)
Abs(x) == IF x < 0 THEN -x ELSE x

RECURSIVE GCD(_, _)
GCD(a, b) == IF b = 0 THEN a ELSE GCD(b, a % b)

Float(n, d) ==
    LET g == GCD(Abs(n), d)
    IN  [kind |-> "ratio", n |-> n \div g, d |-> d \div g]

\* float(x) of a numeric cell
float(c) == IF c.kind = "int" THEN Float(c.n, 1) ELSE Float(c.m, Pow10(c.e))

Plus(a, b) == Float(a.n * b.d + b.n * a.d, a.d * b.d)

Minus(a, b) == Float(a.n * b.d - b.n * a.d, a.d * b.d)

\* a times the fraction p/q, q > 0
Scaled(a, p, q) == Float(a.n * p, a.d * q)

Less(a, b) == a.n * b.d < b.n * a.d

\* the non-null values of a numeric column, in row order (skipna)
RECURSIVE values(_)
values(col) ==
    IF col = <<>> THEN <<>>
    ELSE (IF isna(Head(col)) THEN <<>> ELSE <<float(Head(col))>>) \o values(Tail(col))

RECURSIVE sum(_)
sum(xs) == IF xs = <<>> THEN Float(0, 1) ELSE Plus(Head(xs), sum(Tail(xs)))

\* xs without its element at position i
without(xs, i) == SubSeq(xs, 1, i - 1) \o SubSeq(xs, i + 1, Len(xs))

RECURSIVE sorted(_)
sorted(xs) ==
    IF xs = <<>> THEN <<>>
    ELSE LET i == CHOOSE j \in DOMAIN xs : \A k \in DOMAIN xs : ~Less(xs[k], xs[j])
         IN  <<xs[i]>> \o sorted(without(xs, i))

\* Series.quantile(p/q), linear interpolation between the two nearest ranks
quantile(xs, p, q) ==
    LET x == sorted(xs)
        h == (Len(x) - 1) * p
        lo == (h \div q) + 1
    IN  IF h % q = 0 THEN x[lo]
        ELSE Plus(x[lo], Scaled(Minus(x[lo + 1], x[lo]), h % q, q))

\* Series.median
median(xs) ==
    LET x == sorted(xs)
        n == Len(x)
    IN  IF n % 2 = 1 THEN x[(n + 1) \div 2]
        ELSE Scaled(Plus(x[n \div 2], x[(n \div 2) + 1]), 1, 2)

\* pd.to_numeric(df_norm.get("amount_gbp"), errors="coerce")
amt_of(norm) ==
    [i \in DOMAIN norm.data["amount_gbp"] |->
        LET c == norm.data["amount_gbp"][i]
        IN  IF c.kind \in {"int", "float"} THEN c ELSE NaN]

\* total_amount: a sum that skips nulls is 0.0 when nothing is left
total_amount(amt) == IF Len(amt) # 0 THEN sum(values(amt)) ELSE Float(0, 1)

\* the stats dictionary: each entry is guarded by amt.size, the number of
\* rows, and a reduction that skips nulls returns NaN when nothing is left
stats(amt) ==
    LET xs == values(amt)
        guarded(v) == IF Len(amt) # 0 THEN (IF xs = <<>> THEN NaN ELSE v) ELSE None
    IN  [min |-> guarded(sorted(xs)[1]),
         max |-> guarded(sorted(xs)[Len(xs)]),
         mean |-> guarded(Scaled(sum(xs), 1, Len(xs))),
         median |-> guarded(median(xs)),
         p95 |-> guarded(quantile(xs, 95, 100))]

\* Series.nunique(dropna=True)
nunique(col) == Cardinality({col[i] : i \in {j \in DOMAIN col : ~isna(col[j])}})

\* the label of the UK financial year, 1 April to 31 March, dtm falls in.
\* This variant starts the year in March.
uk_fiscal_year_label_from_march(d) ==
    LET start == IF d.month >= 3 THEN d.year ELSE d.year - 1
        end == IF d.month >= 3 THEN d.year + 1 ELSE d.year
        text == NatStr(end)
    IN  NatStr(start) \o <<"-">> \o SubSeq(text, Max({1, Len(text) - 1}), Len(text))

\* f"{start}-{str(end)[-2:]}"
uk_fiscal_year_label(d) ==
    LET start == IF d.month >= 4 THEN d.year ELSE d.year - 1
        end == IF d.month >= 4 THEN d.year + 1 ELSE d.year
        text == NatStr(end)
    IN  NatStr(start) \o <<"-">> \o SubSeq(text, Max({1, Len(text) - 1}), Len(text))

core_cols ==
    <<"date", "supplier", "entity", "amount_gbp", "expense_type", "expense_area",
      "description">>

\* Series.notna().sum() and Series.isna().sum()
notna_count(col) == Cardinality({i \in DOMAIN col : ~isna(col[i])})

isna_count(col) == Cardinality({i \in DOMAIN col : isna(col[i])})

\* df_norm[cols].notna().sum().sum()
RECURSIVE notna_cells(_, _)
notna_cells(norm, cols) ==
    IF cols = <<>> THEN 0
    ELSE notna_count(norm.data[Head(cols)]) + notna_cells(norm, Tail(cols))

completeness_score_and_coverage(norm) ==
    LET present == SelectSeq(core_cols, LAMBDA c : c \in DOMAIN norm.data)
        non_null == notna_cells(norm, present)
        size == Len(present) * Len(norm.index)
        score == IF size # 0 THEN Float(non_null, size) ELSE Float(0, 1)
        coverage == IF ~Less(score, Float(9, 10)) THEN "complete"
                    ELSE IF ~Less(score, Float(6, 10)) THEN "partial"
                    ELSE "limited"
    IN  IF present = <<>>
        THEN [score |-> Float(0, 1), coverage |-> "unknown",
              null_counts |-> [c \in {} |-> 0]]
        ELSE [score |-> score, coverage |-> coverage,
              null_counts |-> [c \in DOMAIN norm.data |-> isna_count(norm.data[c])]]

\* round(x, 2) of a float x >= 0: the nearest hundredth, a half going to
\* the even side
round2(x) ==
    LET q == (100 * x.n) \div x.d
        r == (100 * x.n) % x.d
    IN  IF 2 * r > x.d \/ (2 * r = x.d /\ q % 2 = 1) THEN Float(q + 1, 100)
        ELSE Float(q, 100)

\* the keys of a set of str in ascending order
RECURSIVE ascending(_)
ascending(S) ==
    IF S = {} THEN <<>>
    ELSE LET k == CHOOSE x \in S : \A y \in S : ~StrLess(y, x)
         IN  <<k>> \o ascending(S \ {k})

\* the non-null amounts of the rows whose key cell is k, from row r on
RECURSIVE group_values(_, _, _, _)
group_values(keys, amounts, k, r) ==
    IF r > Len(keys) THEN <<>>
    ELSE (IF keys[r] = Str(k) /\ ~isna(amounts[r]) THEN <<float(amounts[r])>> ELSE <<>>)
         \o group_values(keys, amounts, k, r + 1)

\* df_norm.groupby(key, dropna=True)["amount_gbp"].agg(["sum", "count"])
\* .reset_index(): one row per distinct non-null key, the rows in ascending
\* key order (groupby sorts its groups); sum and count skip null amounts
groupby(norm, key) ==
    LET col == norm.data[key]
        ks == ascending({col[i].s : i \in {j \in DOMAIN col : ~isna(col[j])}})
    IN  [g \in DOMAIN ks |->
            LET xs == group_values(col, norm.data["amount_gbp"], ks[g], 1)
            IN  [key |-> Str(ks[g]), sum |-> sum(xs), count |-> Len(xs)]]

\* g.sort_values("sum", ascending=False).  The sort is pandas' default
\* one, which on frames this short leaves rows with equal sums in the
\* order they had.
RECURSIVE sort_values(_)
sort_values(g) ==
    IF g = <<>> THEN <<>>
    ELSE LET i == Min({j \in DOMAIN g : \A k \in DOMAIN g : ~Less(g[j].sum, g[k].sum)})
         IN  <<g[i]>> \o sort_values(without(g, i))

head(g, n) == SubSeq(g, 1, Min({n, Len(g)}))

groups_top(norm, key, top_n) ==
    LET g == head(sort_values(groupby(norm, key)), top_n)
    IN  [i \in DOMAIN g |->
            [label |-> IF ~isna(g[i].key) THEN g[i].key ELSE None,
             total |-> g[i].sum,
             transaction_count |-> g[i].count]]

TopSuppliers == 10

TopEntities == 50

TopExpenseTypes == 50

compute_metadata(d_month, d, norm) ==
    LET amt == amt_of(norm)
        quality == completeness_score_and_coverage(norm)
    IN  [temporal_coverage |-> [fiscal_year |-> uk_fiscal_year_label(d_month)],
         record_counts |->
             [transaction_count |-> Len(norm.index),
              source_record_count |-> Len(d.rows),
              unique_suppliers |-> nunique(norm.data["supplier"]),
              unique_entities |-> nunique(norm.data["entity"]),
              unique_expense_types |-> nunique(norm.data["expense_type"])],
         financial_summary |->
             [total_amount_gbp |-> total_amount(amt),
              payment_statistics |-> stats(amt)],
         data_quality |->
             [completeness_score |-> round2(quality.score),
              coverage |-> quality.coverage,
              missing_data_counts |-> quality.null_counts],
         top_suppliers |-> groups_top(norm, "supplier", TopSuppliers),
         spending_by_entity |-> groups_top(norm, "entity", TopEntities),
         spending_by_expense_type |-> groups_top(norm, "expense_type", TopExpenseTypes)]

(***************************************************************************)
(* Spec: one run of the engine on a raw table, normalize_dataframe and     *)
(* then compute_metadata, as save_month_json calls them.                   *)
(***************************************************************************)
MaxRows == 2

SupplierLabel == <<"S","u","p","p","l","i","e","r">>
AmountLabel == <<"A","m","o","u","n","t"," ","(","£",")">>
NumberLabel == <<"T","r","a","n","s","a","c","t","i","o","n"," ","N","o">>
DateLabel == <<"P","a","y","m","e","n","t"," ","D","a","t","e">>
EntityLabel == <<"E","n","t","i","t","y">>
CommentLabel == <<"C","o","m","m","e","n","t">>

TableHeaders ==
    { <<SupplierLabel, AmountLabel>>,
      <<DateLabel, SupplierLabel>>,
      <<NumberLabel, SupplierLabel>>,
      <<AmountLabel, EntityLabel>>,
      <<SupplierLabel>>,
      <<CommentLabel>> }

\* the cells a column of the model's raw tables may hold, by its label
CellsFor(label) ==
    CASE label = SupplierLabel -> {NaN, Str(<<" ">>), Str(<<"A","c","m","e"," ">>)}
      [] label = AmountLabel   -> {NaN, Str(<<"n","/","a">>), Str(<<"0">>), PyFloat(0, 0),
                                   Str(<<"2",".","5">>)}
      [] label = NumberLabel   -> {NaN, Str(<<" ","0","0","7"," ">>), Str(<<>>)}
      [] label = DateLabel     -> {NaN, Str(DateText(1, 2, 2025)), Str(DateText(1, 13, 2025))}
      [] label = EntityLabel   -> {NaN, Str(<<"H","M","T">>)}
      [] OTHER                 -> {NaN, Str(<<"x">>)}

RECURSIVE RowsOf(_, _)
RowsOf(h, n) ==
    IF n = 0 THEN {<<>>}
    ELSE {Append(r, c) : r \in RowsOf(h, n - 1), c \in CellsFor(h[n])}

\* the target months of the model's runs, one on each side of 1 April
EngineMonths == {[year |-> 2025, month |-> 1], [year |-> 2025, month |-> 4]}

RawTables ==
    UNION {{[columns |-> h, rows |-> rs] : rs \in Columns(RowsOf(h, Len(h)), MaxRows)} :
              h \in TableHeaders}

Init ==
    /\ pc = "normalize"
    /\ df \in RawTables
    /\ column_map = Unset /\ df_norm = Unset /\ metadata = Unset
    /\ xls = Unset /\ sheet_name = Unset /\ series = Unset /\ parsed = Unset
    /\ dtm \in EngineMonths
    /\ args = Unset /\ returned = Unset

Normalize ==
    /\ pc = "normalize"
    /\ \E pandas2 \in BOOLEAN :
           LET result == normalize_dataframe(df, pandas2)
           IN  /\ df_norm' = result
               /\ column_map' = IF result.kind = "raised" THEN column_map
                                ELSE result.mapping
               /\ pc' = IF result.kind = "raised" THEN "failed" ELSE "normalized"
    /\ UNCHANGED <<xls, sheet_name, df, metadata, series, parsed,
                   dtm, args, returned>>

BuildMetadata ==
    /\ pc = "normalized"
    /\ metadata' = compute_metadata(dtm, df, df_norm)
    /\ pc' = "done"
    /\ UNCHANGED <<xls, sheet_name, df, column_map, df_norm, series, parsed,
                   dtm, args, returned>>

Next == Normalize \/ BuildMetadata

Spec == Init /\ [][Next]_vars

(***************************************************************************)
(* What the claims about the normalized table speak of.                    *)
(***************************************************************************)
NormRows == DOMAIN df_norm.index

\* the raw cell under the header resolved for key, in raw row q; None when
\* the key has no resolved header
SourceCell(key, q) ==
    IF key \in DOMAIN column_map THEN ColumnOf(df, column_map[key])[q] ELSE None

\* a raw cell that holds no value: NaN, None or blank text
IsAbsent(c) == isna(c) \/ (c.kind = "str" /\ strip(c.s) = <<>>)

IsZeroAmount(c) == c = PyFloat(0, 0) \/ c = Str(<<"0">>)

\* C1: every row of the normalized table has supplier non-null or
\* amount_gbp non-null, and a raw row with a zero amount and no supplier is
\* kept.
C1_RowsHaveSupplierOrAmount ==
    (pc \in {"normalized", "done"}) =>
        /\ \A r \in NormRows :
               ~isna(df_norm.data["supplier"][r]) \/ ~isna(df_norm.data["amount_gbp"][r])
        /\ \A q \in DOMAIN df.rows :
               (isna(SourceCell("supplier", q)) /\ IsZeroAmount(SourceCell("amount_gbp", q)))
                   => \E r \in NormRows : df_norm.index[r] = q

\* C2: every row of the normalized table has exactly the canonical field
\* names as keys, and every canonical field with no resolved source column
\* is null in every row.
C2_UnresolvedFieldsAreNull ==
    (pc \in {"normalized", "done"}) =>
        /\ DOMAIN df_norm.data = FieldSet
        /\ \A k \in FieldSet : Len(df_norm.data[k]) = Len(df_norm.index)
        /\ \A k \in FieldSet \ DOMAIN column_map :
               \A r \in NormRows : isna(df_norm.data[k][r])

\* C9: transaction_number is null when the source cell is absent and is
\* otherwise the trimmed string form of the source value; no row carries
\* the text "nan" or "None" in its place.
C9_IdentifierCoercion ==
    (pc \in {"normalized", "done"}) =>
        \A r \in NormRows :
            LET src == SourceCell("transaction_number", df_norm.index[r])
                out == df_norm.data["transaction_number"][r]
            IN  /\ IsAbsent(src) => isna(out)
                /\ ~IsAbsent(src) => out = Str(strip(str(src)))
                /\ out \notin {Str(<<"n", "a", "n">>), Str(<<"N", "o", "n", "e">>)}

\* C10: for a raw table with at least one column the run never fails:
\* normalize returns a fixed-shape table and the Metadata Builder a record.
C10_NeverRaises ==
    /\ pc # "failed"
    /\ pc \in {"normalized", "done"} =>
           (df_norm.kind = "frame" /\ DOMAIN df_norm.data = FieldSet)
    /\ pc = "done" => "record_counts" \in DOMAIN metadata
(***************************************************************************)
(* What the claims about the metadata record speak of.                     *)
(***************************************************************************)
\* the non-null amounts of the normalized table, as a bag of their values
AmountRows == {r \in NormRows : ~isna(df_norm.data["amount_gbp"][r])}

AmountAt(r) == float(df_norm.data["amount_gbp"][r])

IsAbsentStatistic(v) == v = None

\* C11: when the normalized table holds no non-null amount_gbp (no rows, or
\* rows whose amounts are all null) min, max, mean, median and p95 are
\* absent (None, neither zero nor NaN) and the total is 0.0; otherwise
\* each statistic is computed over the non-null amounts only.
C11_StatisticsOverNonNullAmounts ==
    pc = "done" =>
        LET st == metadata.financial_summary.payment_statistics
            tot == metadata.financial_summary.total_amount_gbp
            n == Cardinality(AmountRows)
            below(v) == Cardinality({r \in AmountRows : Less(AmountAt(r), v)})
            above(v) == Cardinality({r \in AmountRows : Less(v, AmountAt(r))})
        IN  IF AmountRows = {}
            THEN /\ \A name \in DOMAIN st : IsAbsentStatistic(st[name])
                 /\ tot = Float(0, 1)
            ELSE /\ \A name \in DOMAIN st : st[name].kind = "ratio"
                 /\ \E r \in AmountRows : st.min = AmountAt(r)
                 /\ below(st.min) = 0
                 /\ \E r \in AmountRows : st.max = AmountAt(r)
                 /\ above(st.max) = 0
                 /\ Scaled(st.mean, n, 1) = tot
                 /\ 2 * below(st.median) <= n /\ 2 * above(st.median) <= n
                 /\ ~Less(st.p95, st.median) /\ ~Less(st.max, st.p95)

(***************************************************************************)
(* SpecCompleteness: completeness_score_and_coverage applied on its own to *)
(* the normalized tables normalize_dataframe returns.                      *)
(***************************************************************************)
NormalizedTables ==
    {f \in {normalize_dataframe(t, p) : t \in RawTables, p \in BOOLEAN} :
        f.kind = "frame"}

InitCompleteness ==
    /\ pc = "score"
    /\ args \in {[df_norm |-> f] : f \in NormalizedTables}
    /\ returned = Unset
    /\ xls = Unset /\ sheet_name = Unset /\ df = Unset /\ column_map = Unset
    /\ df_norm = Unset /\ metadata = Unset /\ series = Unset /\ parsed = Unset
    /\ dtm = Unset

ScoreCompleteness ==
    /\ pc = "score"
    /\ returned' = completeness_score_and_coverage(args.df_norm)
    /\ pc' = "scored"
    /\ UNCHANGED <<xls, sheet_name, df, column_map, df_norm, metadata, series, parsed,
                   dtm, args>>

NextCompleteness == ScoreCompleteness

SpecCompleteness == InitCompleteness /\ [][NextCompleteness]_vars

CoreFields ==
    {"date", "supplier", "entity", "amount_gbp", "expense_type", "expense_area",
     "description"}

\* the core cells of a normalized table, and those of them that hold a value
CoreCells(norm) == CoreFields \X DOMAIN norm.index

FilledCoreCells(norm) == {c \in CoreCells(norm) : ~isna(norm.data[c[1]][c[2]])}

\* C12: the score is the number of non-null core cells over the number of
\* core cells; the label is "complete" from 0.9, "partial" from 0.6 and
\* "limited" below, except that a table whose core fields are all entirely
\* null, or that has no core cell, is 0.0 / "unknown"; a fully populated
\* table is 1.0 / "complete".
C12_CompletenessScore ==
    pc = "scored" =>
        LET filled == Cardinality(FilledCoreCells(args.df_norm))
            cells == Cardinality(CoreCells(args.df_norm))
        IN  IF filled = 0
            THEN returned.score = Float(0, 1) /\ returned.coverage = "unknown"
            ELSE /\ returned.score = Float(filled, cells)
                 /\ returned.coverage =
                        (IF 10 * filled >= 9 * cells THEN "complete"
                         ELSE IF 10 * filled >= 6 * cells THEN "partial"
                         ELSE "limited")
                 /\ filled = cells =>
                        returned.score = Float(1, 1) /\ returned.coverage = "complete"
(***************************************************************************)
(* SpecGroups: groups_top applied on its own, by supplier, to normalized   *)
(* tables of a few payments.                                               *)
(***************************************************************************)
MaxGroupRows == 3

MaxTopN == 2

Nestor == <<"N","e","s","t","o","r">>
Carter == <<"C","a","r","t","e","r">>
Deere == <<"D","e","e","r","e">>

PaymentRows ==
    {<<who, amount>> :
        who \in {NaN, Str(Nestor), Str(Carter), Str(Deere)},
        amount \in {NaN, Str(<<"3","0","0">>), Str(<<"1","0","0">>)}}

PaymentTables ==
    {[columns |-> <<SupplierLabel, AmountLabel>>, rows |-> rs] :
        rs \in Columns(PaymentRows, MaxGroupRows)}

InitGroups ==
    /\ pc = "group"
    /\ args \in {[df_norm |-> normalize_dataframe(t, p), key |-> "supplier", top_n |-> n] :
                    t \in PaymentTables, p \in BOOLEAN, n \in 1..MaxTopN}
    /\ returned = Unset
    /\ xls = Unset /\ sheet_name = Unset /\ df = Unset /\ column_map = Unset
    /\ df_norm = Unset /\ metadata = Unset /\ series = Unset /\ parsed = Unset
    /\ dtm = Unset

GroupsTop ==
    /\ pc = "group"
    /\ returned' = groups_top(args.df_norm, args.key, args.top_n)
    /\ pc' = "grouped"
    /\ UNCHANGED <<xls, sheet_name, df, column_map, df_norm, metadata, series, parsed,
                   dtm, args>>

NextGroups == GroupsTop

SpecGroups == InitGroups /\ [][NextGroups]_vars

\* the rows of the table under grouping whose key cell is k, and what the
\* group they form adds up to
KeyColumn == args.df_norm.data[args.key]

GroupRows(k) == {r \in DOMAIN KeyColumn : KeyColumn[r] = k}

NullRows == {r \in DOMAIN KeyColumn : isna(KeyColumn[r])}

RECURSIVE SumOver(_)
SumOver(rows) ==
    IF rows = {} THEN Float(0, 1)
    ELSE LET r == CHOOSE x \in rows : TRUE
             c == args.df_norm.data["amount_gbp"][r]
         IN  Plus(IF isna(c) THEN Float(0, 1) ELSE float(c), SumOver(rows \ {r}))

Keys == {KeyColumn[r] : r \in DOMAIN KeyColumn \ NullRows}

Listed == {returned[i].label : i \in DOMAIN returned}

\* C13: the rows whose grouping key is null form one group labelled null,
\* whose sum and row count compete for a place in the list like any other
\* group: the list holds it, or is full of groups that sum to no less.
C13_NullKeyGroupKept ==
    (pc = "grouped" /\ NullRows # {}) =>
        \/ \E i \in DOMAIN returned :
               /\ returned[i].label = None
               /\ returned[i].total = SumOver(NullRows)
               /\ returned[i].transaction_count = Cardinality(NullRows)
        \/ /\ Len(returned) = args.top_n
           /\ \A i \in DOMAIN returned : ~Less(returned[i].total, SumOver(NullRows))

\* C14: the list has at most N entries (10 for supplier, 50 for entity and
\* expense_type), is in descending order of summed amount, holds no group
\* that sums to less than a group left out, and lists groups with equal
\* sums in the order they first appear in the table.
C14_TopNOrderAndCut ==
    pc = "grouped" =>
        /\ TopSuppliers = 10 /\ TopEntities = 50 /\ TopExpenseTypes = 50
        /\ Len(returned) <= args.top_n
        /\ \A i, j \in DOMAIN returned :
               i < j => ~Less(returned[i].total, returned[j].total)
        /\ \A k \in Keys \ Listed : \A i \in DOMAIN returned :
               ~Less(returned[i].total, SumOver(GroupRows(k)))
        /\ \A i, j \in DOMAIN returned :
               (i < j /\ returned[i].total = returned[j].total) =>
                   Min(GroupRows(returned[i].label)) < Min(GroupRows(returned[j].label))
(***************************************************************************)
(* SpecFiscal: uk_fiscal_year_label applied on its own to target months.   *)
(***************************************************************************)
TargetYears == {1999, 2000, 2009, 2024, 2025, 2099}

TargetMonths == {[year |-> y, month |-> m] : y \in TargetYears, m \in 1..12}

InitFiscal ==
    /\ pc = "label"
    /\ args \in {[dtm |-> d] : d \in TargetMonths}
    /\ returned = Unset
    /\ xls = Unset /\ sheet_name = Unset /\ df = Unset /\ column_map = Unset
    /\ df_norm = Unset /\ metadata = Unset /\ series = Unset /\ parsed = Unset
    /\ dtm = Unset

FiscalYearLabel ==
    /\ pc = "label"
    /\ returned' = uk_fiscal_year_label(args.dtm)
    /\ pc' = "labelled"
    /\ UNCHANGED <<xls, sheet_name, df, column_map, df_norm, metadata, series, parsed,
                   dtm, args>>

NextFiscal == FiscalYearLabel

SpecFiscal == InitFiscal /\ [][NextFiscal]_vars

\* the last two digits of a year, as text
TwoDigits(y) == ZeroPad(NatStr(y % 100), 2)

\* C15: for a target month in April to December the label is the year, a
\* hyphen and the last two digits of the next year; for January to March
\* it is the previous year, a hyphen and the last two digits of the year;
\* 2025-01 gives "2024-25" and 2025-04 gives "2025-26".
C15_FiscalYearLabel ==
    pc = "labelled" =>
        LET y == args.dtm.year
            m == args.dtm.month
        IN  /\ m \in 4..12 => returned = NatStr(y) \o <<"-">> \o TwoDigits(y + 1)
            /\ m \in 1..3 => returned = NatStr(y - 1) \o <<"-">> \o TwoDigits(y)
            /\ (y = 2025 /\ m = 1) => returned = <<"2","0","2","4","-","2","5">>
            /\ (y = 2025 /\ m = 4) => returned = <<"2","0","2","5","-","2","6">>

\* C15 witness: March 2025 has been labelled with the year that began in
\* April 2024.
C15_Witness ==
    /\ pc = "labelled"
    /\ args.dtm = [year |-> 2025, month |-> 3]
    /\ returned = <<"2","0","2","4","-","2","5">>

(***************************************************************************)
(* SpecCanon: canon applied on its own to short labels of letters, blanks  *)
(* and punctuation.                                                        *)
(***************************************************************************)
MaxLabelLen == 3

LabelChars == {"a", "B", " ", "\t", "\n", ".", "_"}

InitCanon ==
    /\ pc = "canon"
    /\ args \in {[s |-> t] : t \in Texts(LabelChars, MaxLabelLen)}
    /\ returned = Unset
    /\ xls = Unset /\ sheet_name = Unset /\ df = Unset /\ column_map = Unset
    /\ df_norm = Unset /\ metadata = Unset /\ series = Unset /\ parsed = Unset
    /\ dtm = Unset

Canon ==
    /\ pc = "canon"
    /\ returned' = canon(args.s)
    /\ pc' = "canon_done"
    /\ UNCHANGED <<xls, sheet_name, df, column_map, df_norm, metadata, series, parsed,
                   dtm, args>>

NextCanon == Canon

SpecCanon == InitCanon /\ [][NextCanon]_vars

\* C17: canon is idempotent, canon(canon(s)) = canon(s) for every label s,
\* and canon(s) holds no whitespace and no ASCII punctuation character.
C17_CanonIdempotent ==
    pc = "canon_done" =>
        /\ canon(returned) = returned
        /\ \A i \in DOMAIN returned : returned[i] \notin Whitespace \cup Punctuation
====
